---- MODULE Spec2Model ----
(***************************************************************************)
(* Reading Habit Tracker (src/app.py): a Flask application over one SQLite *)
(* table, reading_sessions, plus a command-line entry.                     *)
(*                                                                         *)
(* Values.  A value bound to a statement or held in a column is a tagged   *)
(* tuple: <<"null">> (Python None, SQL NULL), <<"integer", n>>,            *)
(* <<"text", s>>.  The text of a date is the triple <<y, m, d>> of its     *)
(* zero-padded fields "YYYY-MM-DD"; zero padding makes the byte order of   *)
(* the text the lexicographic order of the triple (TextLeq).  A datetime   *)
(* is the ordinal of its calendar day, counted from the Epoch.             *)
(***************************************************************************)
EXTENDS Integers, Sequences, FiniteSets, TLC

\* ------------------------------------------------------------- bounds
\* Rows one specification adds to the table.
MaxSessions == 2
\* Last calendar day (ordinal) the clock reaches and a request may name.
MaxDay == 2
\* Rows already in the database file when the server starts (SpecRecent,
\* SpecBooks): one more than the LIMIT of the queries.
MaxSeed == 11

\* ------------------------------------------------------------- values
Null == <<"null">>
Integer(n) == <<"integer", n>>
Text(s) == <<"text", s>>
\* A key the JSON body does not hold.
Absent == <<"absent">>

\* ------------------------------------------------------------ calendar
\* Ordinal 0 is Tuesday 2024-02-27: the window crosses a leap day and a
\* month boundary.
Epoch == <<2024, 2, 27>>

IsLeap(y) == (y % 4 = 0 /\ y % 100 # 0) \/ y % 400 = 0

DaysInMonth(y, m) ==
    IF m = 2 THEN (IF IsLeap(y) THEN 29 ELSE 28)
    ELSE IF m \in {4, 6, 9, 11} THEN 30 ELSE 31

NextDate(t) ==
    IF t[3] < DaysInMonth(t[1], t[2]) THEN <<t[1], t[2], t[3] + 1>>
    ELSE IF t[2] < 12 THEN <<t[1], t[2] + 1, 1>>
    ELSE <<t[1] + 1, 1, 1>>

PrevDate(t) ==
    IF t[3] > 1 THEN <<t[1], t[2], t[3] - 1>>
    ELSE IF t[2] > 1 THEN <<t[1], t[2] - 1, DaysInMonth(t[1], t[2] - 1)>>
    ELSE <<t[1] - 1, 12, 31>>

RECURSIVE FromOrdinal(_)
FromOrdinal(o) ==
    IF o = 0 THEN Epoch
    ELSE IF o > 0 THEN NextDate(FromOrdinal(o - 1))
    ELSE PrevDate(FromOrdinal(o + 1))

\* datetime.strftime('%Y-%m-%d')
strftime(o) == Text(FromOrdinal(o))

\* datetime.weekday(): Monday is 0; the Epoch is a Tuesday.
weekday(o) == (o + 1) % 7

\* Byte order of two date texts (SQLite's BINARY collation).
TextLeq(a, b) ==
    \/ a[2][1] < b[2][1]
    \/ a[2][1] = b[2][1] /\ a[2][2] < b[2][2]
    \/ a[2][1] = b[2][1] /\ a[2][2] = b[2][2] /\ a[2][3] <= b[2][3]

Days == 0..MaxDay
DateTexts == {strftime(o) : o \in Days}

\* datetime.strptime(text, '%Y-%m-%d'), on the dates the model stores.
strptime(t) == CHOOSE o \in Days : strftime(o) = t

\* The integer a text spells, for the texts the model types or sends that
\* spell one: int(s) of Python, and the numeric literals of SQLite.
IntLiteral == ("-1" :> (0 - 1)) @@ ("0" :> 0) @@ ("1" :> 1) @@ ("2" :> 2)

\* --------------------------------------------------------------- state
VARIABLES
    argv,       \* sys.argv of the running process
    pc,         \* where the script is: see the start-up actions
    served,     \* app.run was entered in this process
    schema,     \* the database file holds the reading_sessions table
    store,      \* reading_sessions: the rows, in rowid order
    today,      \* ordinal of the calendar day of datetime.now()
    clock,      \* CURRENT_TIMESTAMP, in seconds
    conn,       \* the connection the last operation opened: none/open/closed
    response,   \* the last operation: what it returned or printed (and, of
                \* log_reading, the body it was sent)
    logged      \* rows added so far, which MaxSessions bounds

vars == <<argv, pc, served, schema, store, today, clock, conn, response, logged>>

\* ------------------------------------------------------------ database
\* CREATE TABLE reading_sessions: the affinity of the pages_read column
\* (INTEGER).  A well-formed integer literal becomes an integer; any other
\* text is stored as text.
IntegerAffinity(v) ==
    IF v[1] = "text" /\ v[2] \in DOMAIN IntLiteral
    THEN Integer(IntLiteral[v[2]]) ELSE v

\* The NOT NULL columns, in column order; the constraint SQLite reports.
NotNullViolation(date, pages) ==
    IF date = Null THEN "NOT NULL constraint failed: reading_sessions.date"
    ELSE IF pages = Null THEN "NOT NULL constraint failed: reading_sessions.pages_read"
    ELSE ""

RECURSIVE MaxId(_)
MaxId(st) ==
    IF st = <<>> THEN 0
    ELSE LET m == MaxId(Tail(st)) IN IF Head(st).id > m THEN Head(st).id ELSE m

\* id INTEGER PRIMARY KEY AUTOINCREMENT
NextId(st) == MaxId(st) + 1

\* The row an INSERT makes; created_at DEFAULT CURRENT_TIMESTAMP.
NewRow(st, date, pages, title, notes, rtime, now) ==
    [id |-> NextId(st), date |-> date, pages_read |-> IntegerAffinity(pages),
     book_title |-> title, notes |-> notes, reading_time |-> rtime,
     created_at |-> now]

\* An insert that replaces the newest row (INSERT OR REPLACE on its id).
InsertRowReplacing(st, row) ==
    IF st = <<>> THEN <<row>> ELSE [st EXCEPT ![Len(st)] = row]

\* INSERT INTO reading_sessions ...: the table afterwards.
InsertRow(st, row) == Append(st, row)

\* The number SUM() adds for a value: non-numeric text counts 0.
CastNumeric(v) == IF v[1] = "integer" THEN v[2] ELSE 0

RECURSIVE AddPages(_)
AddPages(rows) ==
    IF rows = <<>> THEN 0
    ELSE CastNumeric(Head(rows).pages_read) + AddPages(Tail(rows))

\* SELECT SUM(pages_read) over the selected rows: NULL over no row, a real
\* as soon as one value is not an integer.
SqlSum(rows) ==
    IF rows = <<>> THEN Null
    ELSE IF \A i \in DOMAIN rows : rows[i].pages_read[1] = "integer"
         THEN Integer(AddPages(rows))
         ELSE <<"real", AddPages(rows)>>

\* Python's `x or 0` on a fetched sum: None and zero give 0.
OrZero(v) == IF v = Null THEN 0 ELSE v[2]

\* SELECT SUM(pages_read) FROM reading_sessions
SumAll(st) == OrZero(SqlSum(st))

\* The same sum with WHERE date > ?.
SumAfter(st, t) ==
    OrZero(SqlSum(SelectSeq(st, LAMBDA r : r.date # t /\ TextLeq(t, r.date))))

\* SELECT SUM(pages_read) FROM reading_sessions WHERE date >= ?
SumSince(st, t) ==
    OrZero(SqlSum(SelectSeq(st, LAMBDA r : TextLeq(t, r.date))))

\* SELECT SUM(pages_read) FROM reading_sessions WHERE date = ?
SumOn(st, t) ==
    OrZero(SqlSum(SelectSeq(st, LAMBDA r : r.date = t)))

\* ------------------------------------------------------------ analytics
\* The loop of calculate_reading_streak from day o backwards.
RECURSIVE StreakFrom(_, _)
StreakFrom(st, o) ==
    IF SumOn(st, strftime(o)) > 0 THEN 1 + StreakFrom(st, o - 1) ELSE 0

\* A streak that a day without pages today does not break.
StreakEndingYesterday(st, now) ==
    IF SumOn(st, strftime(now)) > 0 THEN StreakFrom(st, now)
    ELSE StreakFrom(st, now - 1)

calculate_reading_streak(st, now) == StreakFrom(st, now)

\* LIMIT 10 of get_recent_sessions and of the book distribution.
LIMIT == 10
\* timedelta(days=30) of get_chart_data.
ThirtyDays == 30
\* days=7, the default window of get_reading_velocity.
VelocityDays == 7

Min(a, b) == IF a < b THEN a ELSE b

\* The same order with created_at ASC.
RecentBeforeOldestFirst(a, b, tie) ==
    \/ a.date # b.date /\ TextLeq(b.date, a.date)
    \/ a.date = b.date /\ a.created_at < b.created_at
    \/ a.date = b.date /\ a.created_at = b.created_at
       /\ (IF tie = "asc" THEN a.id < b.id ELSE a.id > b.id)

\* ORDER BY date DESC, created_at DESC: a comes before b.  Rows equal on
\* both keys come in an order SQL leaves open: by rowid, either way.
RecentBefore(a, b, tie) ==
    \/ a.date # b.date /\ TextLeq(b.date, a.date)
    \/ a.date = b.date /\ a.created_at > b.created_at
    \/ a.date = b.date /\ a.created_at = b.created_at
       /\ (IF tie = "asc" THEN a.id < b.id ELSE a.id > b.id)

\* SELECT ... ORDER BY date DESC, created_at DESC LIMIT 10
SelectRecent(st, tie) ==
    LET place == [i \in DOMAIN st |->
                    Cardinality({j \in DOMAIN st : RecentBefore(st[j], st[i], tie)})]
    IN  [k \in 1..Min(LIMIT, Len(st)) |->
            st[CHOOSE i \in DOMAIN st : place[i] = k - 1]]

\* session['book_title'] or 'Unspecified'
TitleOrUnspecified(v) ==
    IF v = Null \/ v = Text("") THEN Text("Unspecified") ELSE v

\* The list get_recent_sessions returns.
RecentSessions(st, tie) ==
    LET rows == SelectRecent(st, tie) IN
    [k \in DOMAIN rows |->
        [date |-> rows[k].date,
         pages_read |-> rows[k].pages_read,
         book_title |-> TitleOrUnspecified(rows[k].book_title),
         notes |-> IF rows[k].notes = Null THEN Text("") ELSE rows[k].notes,
         reading_time |-> IF rows[k].reading_time = Null THEN Integer(0)
                          ELSE rows[k].reading_time]]

\* The same CASE without `OR book_title IS NULL`.
BookKeyEmptyOnly(r) ==
    IF r.book_title = Text("") THEN Text("Unspecified") ELSE r.book_title

\* CASE WHEN book_title = '' OR book_title IS NULL THEN 'Unspecified'
\*      ELSE book_title END as book
BookKey(r) ==
    IF r.book_title = Text("") \/ r.book_title = Null THEN Text("Unspecified")
    ELSE r.book_title

BookGroup(st, key) == SelectSeq(st, LAMBDA r : BookKey(r) = key)

\* ORDER BY pages DESC over the groups: a group of sum pa comes before one
\* of sum pb.  Groups of equal sum come in an order SQL leaves open: by the
\* rowid of their first row (fa, fb), either way.
BookBefore(pa, fa, pb, fb, tie) ==
    \/ pa[2] > pb[2]
    \/ pa[2] = pb[2] /\ (IF tie = "asc" THEN fa < fb ELSE fa > fb)

\* SELECT CASE ... END as book, SUM(pages_read) as pages
\* FROM reading_sessions GROUP BY book ORDER BY pages DESC LIMIT 10
BookData(st, tie) ==
    LET groups == {[book |-> key,
                    pages |-> SqlSum(BookGroup(st, key)),
                    first |-> BookGroup(st, key)[1].id] :
                        key \in {BookKey(st[i]) : i \in DOMAIN st}}
    IN  [k \in 1..Min(LIMIT, Cardinality(groups)) |->
            LET g == CHOOSE a \in groups :
                        Cardinality({b \in groups :
                            BookBefore(b.pages, b.first, a.pages, a.first, tie)}) = k - 1
            IN  [book |-> g.book, pages |-> g.pages]]

\* SELECT date, SUM(pages_read) as pages FROM reading_sessions
\* WHERE date >= ? GROUP BY date ORDER BY date
DailyData(st, since) ==
    LET keys == {st[i].date : i \in {j \in DOMAIN st : TextLeq(since, st[j].date)}} IN
    [k \in 1..Cardinality(keys) |->
        LET key == CHOOSE a \in keys :
                     Cardinality({b \in keys : b # a /\ TextLeq(b, a)}) = k - 1
        IN  [date |-> key,
             pages |-> SqlSum(SelectSeq(st, LAMBDA r : r.date = key))]]

\* strftime('%Y-%m', date)
MonthOf(t) == Text(<<t[2][1], t[2][2]>>)

MonthLeq(a, b) ==
    a[2][1] < b[2][1] \/ (a[2][1] = b[2][1] /\ a[2][2] <= b[2][2])

\* date('now', '-12 months'): the same day a year earlier, a day past the
\* end of its month carried into the next month.
TwelveMonthsBefore(o) ==
    LET t == FromOrdinal(o) IN
    IF t[3] <= DaysInMonth(t[1] - 1, t[2]) THEN Text(<<t[1] - 1, t[2], t[3]>>)
    ELSE Text(<<t[1] - 1, t[2] + 1, t[3] - DaysInMonth(t[1] - 1, t[2])>>)

\* SELECT strftime('%Y-%m', date) as month, SUM(pages_read) as pages
\* FROM reading_sessions WHERE date >= date('now', '-12 months')
\* GROUP BY strftime('%Y-%m', date) ORDER BY month
MonthlyData(st, now) ==
    LET since == TwelveMonthsBefore(now)
        keys == {MonthOf(st[i].date) :
                    i \in {j \in DOMAIN st : TextLeq(since, st[j].date)}}
    IN
    [k \in 1..Cardinality(keys) |->
        LET key == CHOOSE a \in keys :
                     Cardinality({b \in keys : b # a /\ MonthLeq(b, a)}) = k - 1
        IN  [month |-> key,
             pages |-> SqlSum(SelectSeq(st,
                         LAMBDA r : TextLeq(since, r.date) /\ MonthOf(r.date) = key))]]

\* SELECT MIN(date) FROM reading_sessions
MinDate(st) ==
    IF st = <<>> THEN Null
    ELSE CHOOSE t \in {st[i].date : i \in DOMAIN st} :
            \A i \in DOMAIN st : TextLeq(t, st[i].date)

\* The payload of get_stats.  avg_pages_per_day is kept as the quotient it
\* rounds, <<total_pages, days_since_start>> (<<0, 1>> for the 0 of an
\* empty table or of a first entry after today).
StatsPayload(st, now) ==
    LET total_pages == SumAll(st)
        first_entry == MinDate(st)
        days_since_start ==
            IF first_entry = Null THEN 0 ELSE now - strptime(first_entry) + 1
    IN  [total_pages |-> total_pages,
         current_streak |-> calculate_reading_streak(st, now),
         week_pages |-> SumSince(st, strftime(now - weekday(now))),
         month_pages |-> SumSince(st, Text(<<FromOrdinal(now)[1], FromOrdinal(now)[2], 1>>)),
         avg_pages_per_day |->
            IF first_entry # Null /\ days_since_start > 0
            THEN <<total_pages, days_since_start>> ELSE <<0, 1>>]

\* ReadingAnalytics.get_reading_velocity: COUNT(*) and the terms of AVG
\* over WHERE date >= ? AND pages_read > 0 (text compares above any number).
get_reading_velocity(st, now, days) ==
    LET rows == SelectSeq(st, LAMBDA r :
                    /\ TextLeq(strftime(now - days), r.date)
                    /\ (r.pages_read[1] = "text" \/ r.pages_read[2] > 0))
    IN  [avg_pages_per_session |-> <<AddPages(rows), IF rows = <<>> THEN 1 ELSE Len(rows)>>,
         reading_days |-> Len(rows),
         period_days |-> days]

\* strftime('%w', date): Sunday is 0.
DayOfWeek(t) == (weekday(strptime(t)) + 1) % 7

DayNames ==
    <<"Sunday", "Monday", "Tuesday", "Wednesday", "Thursday", "Friday", "Saturday">>

\* ReadingAnalytics.get_reading_patterns: per day of the week, the terms of
\* AVG(pages_read) and COUNT(*), ordered by the day's number.
get_reading_patterns(st) ==
    LET days == {DayOfWeek(st[i].date) : i \in DOMAIN st} IN
    [k \in 1..Cardinality(days) |->
        LET w == CHOOSE a \in days : Cardinality({b \in days : b < a}) = k - 1
            rows == SelectSeq(st, LAMBDA r : DayOfWeek(r.date) = w)
        IN  [day |-> DayNames[w + 1],
             avg_pages |-> <<AddPages(rows), Len(rows)>>,
             sessions |-> Len(rows)]]

\* ------------------------------------------------------------ requests
\* A JSON object: a function from the keys it holds to their values.
Field(key, v) == IF v = Absent THEN <<>> ELSE (key :> v)

Body(date, pages, title) ==
    Field("date", date) @@ Field("pages_read", pages) @@ Field("book_title", title)

\* data.get(key, default)
Get(data, key, default) == IF key \in DOMAIN data THEN data[key] ELSE default

NoResponse == [op |-> "none"]

Serving == {"serving1", "serving2"}

\* The exception log_reading catches, "" when none: the KeyError of
\* data['date'] or data['pages_read'], then what cursor.execute raises.
LogReadingError(data, sch) ==
    IF "date" \notin DOMAIN data THEN "'date'"
    ELSE IF "pages_read" \notin DOMAIN data THEN "'pages_read'"
    ELSE IF ~sch THEN "no such table: reading_sessions"
    ELSE NotNullViolation(data["date"], data["pages_read"])

\* The row log_reading inserts.
LogReadingRow(st, data, now) ==
    NewRow(st, data["date"], data["pages_read"],
           Get(data, "book_title", Text("")), Get(data, "notes", Text("")),
           Get(data, "reading_time", Integer(0)), now)

\* POST /api/log_reading.  On the except path nothing closes the
\* connection: it stays open unless the interpreter finalizes the
\* unreferenced object as the handler returns.
log_reading(Bodies, Elapsed) ==
    /\ pc \in Serving
    /\ \E data \in Bodies, dt \in Elapsed, finalized \in BOOLEAN :
        LET err == LogReadingError(data, schema)
            row == LogReadingRow(store, data, clock + dt)
        IN  IF err = ""
            THEN /\ logged < MaxSessions
                 /\ ~finalized
                 /\ store' = InsertRow(store, row)
                 /\ logged' = logged + 1
                 /\ clock' = clock + dt
                 /\ conn' = "closed"
                 /\ response' = [op |-> "log_reading", request |-> data,
                                 success |-> TRUE, session_id |-> row.id]
            ELSE /\ UNCHANGED <<store, logged, clock>>
                 /\ conn' = IF finalized THEN "closed" ELSE "open"
                 /\ response' = [op |-> "log_reading", request |-> data,
                                 success |-> FALSE, error |-> err]
    /\ UNCHANGED <<argv, pc, served, schema, today>>

\* GET /api/get_stats
get_stats ==
    /\ pc \in Serving
    /\ conn' = "closed"
    /\ response' = [op |-> "get_stats", payload |-> StatsPayload(store, today)]
    /\ UNCHANGED <<argv, pc, served, schema, store, today, clock, logged>>

\* GET /api/get_chart_data
get_chart_data ==
    /\ pc \in Serving
    /\ \E tie \in {"asc", "desc"} :
        response' = [op |-> "get_chart_data",
                     daily |-> DailyData(store, strftime(today - ThirtyDays)),
                     monthly |-> MonthlyData(store, today),
                     books |-> BookData(store, tie)]
    /\ conn' = "closed"
    /\ UNCHANGED <<argv, pc, served, schema, store, today, clock, logged>>

\* GET /api/get_recent_sessions
get_recent_sessions ==
    /\ pc \in Serving
    /\ \E tie \in {"asc", "desc"} :
        response' = [op |-> "get_recent_sessions",
                     sessions |-> RecentSessions(store, tie)]
    /\ conn' = "closed"
    /\ UNCHANGED <<argv, pc, served, schema, store, today, clock, logged>>

\* cli_log_reading, run by the second __main__ block, on the lines typed
\* at its prompts: a date (Text(<<>>) is the blank line), the pages, the
\* book title.  int() raises ValueError before any connection is opened;
\* an exception of the insert leaves the connection as log_reading does.
cli_log_reading(Lines, Elapsed) ==
    /\ pc = "main2"
    /\ Len(argv) > 1 /\ argv[2] = "cli"
    /\ \E line \in Lines.date, pages \in Lines.pages, book \in Lines.book,
          dt \in Elapsed, finalized \in BOOLEAN :
        LET date == IF line = Text(<<>>) THEN strftime(today) ELSE line
        IN  IF pages \notin DOMAIN IntLiteral
            THEN /\ ~finalized
                 /\ UNCHANGED <<store, logged, clock>>
                 /\ conn' = "none"
                 /\ response' = [op |-> "cli_log_reading", success |-> FALSE,
                                 printed |-> "Invalid input. Please enter a valid number for pages."]
            ELSE IF ~schema
            THEN /\ UNCHANGED <<store, logged, clock>>
                 /\ conn' = IF finalized THEN "closed" ELSE "open"
                 /\ response' = [op |-> "cli_log_reading", success |-> FALSE,
                                 printed |-> "Error: no such table: reading_sessions"]
            ELSE /\ logged < MaxSessions
                 /\ ~finalized
                 /\ store' = InsertRow(store,
                        NewRow(store, date, Integer(IntLiteral[pages]), Text(book),
                               Text(""), Integer(0), clock + dt))
                 /\ logged' = logged + 1
                 /\ clock' = clock + dt
                 /\ conn' = "closed"
                 /\ response' = [op |-> "cli_log_reading", success |-> TRUE,
                                 printed |-> "Logged"]
    /\ pc' = "exited"
    /\ UNCHANGED <<argv, served, schema, today>>

\* ------------------------------------------------------------- start-up
\* init_db: CREATE TABLE IF NOT EXISTS; the rows of an existing table stay.
init_db(next) ==
    /\ schema' = TRUE
    /\ pc' = next
    /\ UNCHANGED <<argv, served, store, today, clock, conn, response, logged>>

\* app.run(debug=True): the server starts and serves requests.
app_run(next) ==
    /\ served' = TRUE
    /\ pc' = next
    /\ UNCHANGED <<argv, schema, store, today, clock, conn, response, logged>>

\* The first `if __name__ == '__main__':` block: init_db(), then app.run.
main_first_init_db == pc = "main1" /\ init_db("run1")
main_first_app_run == pc = "run1" /\ app_run("serving1")

\* The server is interrupted: app.run returns and the script goes on past
\* the block that called it, or the process is killed where it is.
server_stop ==
    /\ pc \in Serving
    /\ \E killed \in BOOLEAN :
        pc' = IF killed \/ pc = "serving2" THEN "exited" ELSE "main2"
    /\ UNCHANGED <<argv, served, schema, store, today, clock, conn, response, logged>>

\* The second `if __name__ == "__main__":` block, when argv[1] is not "cli".
main_second_init_db ==
    /\ pc = "main2"
    /\ ~(Len(argv) > 1 /\ argv[2] = "cli")
    /\ init_db("run2")
main_second_app_run == pc = "run2" /\ app_run("serving2")

Argvs == {<<"app.py">>, <<"app.py", "cli">>}

\* The program is invoked again, on the same database file.
invoke ==
    /\ pc = "exited"
    /\ \E a \in Argvs : argv' = a
    /\ pc' = "main1"
    /\ served' = FALSE
    /\ conn' = "none"
    /\ response' = NoResponse
    /\ UNCHANGED <<schema, store, today, clock, logged>>

\* Midnight passes.
midnight ==
    /\ today < MaxDay
    /\ today' = today + 1
    /\ UNCHANGED <<argv, pc, served, schema, store, clock, conn, response, logged>>

\* ------------------------------------------------------- specification
Requests(dates, pages, titles) ==
    {Body(d, p, t) : d \in dates, p \in pages, t \in titles}

\* Spec: the whole program, from a first invocation with no database file.
\* Sessions are logged for the current day: the bodies posted carry
\* today's date or none, and the date prompt is left blank.
Bodies ==
    Requests({strftime(today), Null, Absent},
             {Integer(0 - 1), Integer(1), Text("abc"), Text("1"), Null, Absent},
             {Absent})

Typed == [date |-> {Text(<<>>)}, pages |-> {"-1", "1", "abc"}, book |-> {""}]

Init ==
    /\ argv \in Argvs
    /\ pc = "main1"
    /\ served = FALSE
    /\ schema = FALSE
    /\ store = <<>>
    /\ today = 0
    /\ clock = 0
    /\ conn = "none"
    /\ response = NoResponse
    /\ logged = 0

Next ==
    \/ main_first_init_db
    \/ main_first_app_run
    \/ server_stop
    \/ main_second_init_db
    \/ main_second_app_run
    \/ cli_log_reading(Typed, {1})
    \/ invoke
    \/ midnight
    \/ log_reading(Bodies, {1})
    \/ get_stats
    \/ get_chart_data
    \/ get_recent_sessions

Spec == Init /\ [][Next]_vars

\* SpecServe: the server serving on a new database; sessions are logged
\* for any day of the window, with any pages.
ServeBodies ==
    Requests(DateTexts \cup {Absent},
             {Integer(0 - 1), Integer(0), Integer(1), Text("abc")},
             {Absent})

InitServe ==
    /\ argv = <<"app.py">>
    /\ pc = "serving1"
    /\ served = TRUE
    /\ schema = TRUE
    /\ store = <<>>
    /\ today = 0
    /\ clock = 0
    /\ conn = "none"
    /\ response = NoResponse
    /\ logged = 0

NextServe ==
    \/ midnight
    \/ log_reading(ServeBodies, {1})
    \/ get_stats

SpecServe == InitServe /\ [][NextServe]_vars

\* The server serving on a database file that holds the rows of earlier
\* runs.
InitSeeded(rows, now) ==
    /\ argv = <<"app.py">>
    /\ pc = "serving1"
    /\ served = TRUE
    /\ schema = TRUE
    /\ store = rows
    /\ today = 0
    /\ clock = now
    /\ conn = "none"
    /\ response = NoResponse
    /\ logged = 0

\* SpecRecent: the file holds up to MaxSeed sessions, logged two to a day
\* and three to a second, so that dates and created_at repeat; more are
\* logged within the same second or a second later.
RECURSIVE SeedRecent(_)
SeedRecent(k) ==
    IF k = 0 THEN <<>>
    ELSE LET st == SeedRecent(k - 1) IN
         InsertRow(st, NewRow(st, strftime((k \div 2) % (MaxDay + 1)), Integer(1),
                              Text(""), Text(""), Integer(0), k \div 3))

RecentBodies == Requests(DateTexts, {Integer(1)}, {Absent})

InitRecent == \E k \in 0..MaxSeed : InitSeeded(SeedRecent(k), k \div 3)

NextRecent ==
    \/ log_reading(RecentBodies, {0, 1})
    \/ get_recent_sessions

SpecRecent == InitRecent /\ [][NextRecent]_vars

\* SpecBooks: the file holds up to MaxSeed sessions, each of another book,
\* the third of a book titled "Unspecified"; more are logged with no title,
\* an empty one, "Unspecified" or "Dune".
Shelf ==
    <<"Dune", "Emma", "Unspecified", "Beloved", "Dracula", "Walden", "Hamlet",
      "Middlemarch", "Persuasion", "Solaris", "Neuromancer", "Kindred",
      "Candide", "Germinal">>

RECURSIVE SeedBooks(_)
SeedBooks(k) ==
    IF k = 0 THEN <<>>
    ELSE LET st == SeedBooks(k - 1) IN
         InsertRow(st, NewRow(st, strftime(0), Integer((k % 4) + 1), Text(Shelf[k]),
                              Text(""), Integer(0), k))

BookBodies ==
    Requests({strftime(0)}, {Integer(1), Integer(2), Text("abc")},
             {Null, Text(""), Text("Unspecified"), Text("Dune")})

InitBooks == \E k \in 0..MaxSeed : InitSeeded(SeedBooks(k), k)

NextBooks ==
    \/ log_reading(BookBodies, {1})
    \/ get_chart_data

SpecBooks == InitBooks /\ [][NextBooks]_vars

\* ---------------------------------------------------------------- claims
IsCli == Len(argv) > 1 /\ argv[2] = "cli"

\* C2: a log_reading request with no date, and one whose pages_read is the
\* text "abc", both return {success: false, error} and store no session.
C2_InvalidRequestsFail ==
    [][(/\ response'.op = "log_reading"
        /\ \/ "date" \notin DOMAIN response'.request
           \/ /\ "pages_read" \in DOMAIN response'.request
              /\ response'.request["pages_read"] = Text("abc"))
       => (response'.success = FALSE /\ store' = store)]_vars

\* C7: every stored session has an integer pages_read that is >= 0.
C7_PagesNonNegative ==
    \A i \in DOMAIN store :
        store[i].pages_read[1] = "integer" /\ store[i].pages_read[2] >= 0

\* C8: invoked with `cli` the program runs cli_log_reading and never starts
\* the HTTP server; otherwise it starts the server, after init_db.
C8_StartupDispatch ==
    /\ IsCli => ~served
    /\ served => schema
    /\ response.op = "cli_log_reading" => IsCli

\* C10: no connection is still open after an operation has returned.
C10_ConnectionReleased == conn # "open"

\* The days the sums are probed at: the window, the week before it (where
\* week_start and the streak's walk may fall) and the day after.
Probes == (0 - 7)..(MaxDay + 1)

\* C1: when log_reading accepts a session (date d, integer pages_read p),
\* every sum of pages_read over a range that includes d (the total of
\* get_stats, date >= t for t <= d, date = d) is p more than before, and
\* every sum over a range that excludes d is unchanged.
C1_SumGrowsByPages ==
    [][(/\ Len(store') = Len(store) + 1
        /\ response'.op = "log_reading"
        /\ response'.request["pages_read"][1] = "integer")
       => LET d == response'.request["date"]
              n == response'.request["pages_read"][2]
          IN  /\ SumAll(store') = SumAll(store) + n
              /\ StatsPayload(store', today').total_pages
                    = StatsPayload(store, today).total_pages + n
              /\ \A o \in Probes :
                    LET t == strftime(o) IN
                    /\ SumSince(store', t)
                          = SumSince(store, t) + (IF TextLeq(t, d) THEN n ELSE 0)
                    /\ SumOn(store', t)
                          = SumOn(store, t) + (IF t = d THEN n ELSE 0)]_vars

\* C1, its case: a session of p # 0 pages was just accepted into a table
\* that held a session of the same date.
C1_Witness ==
    /\ response.op = "log_reading" /\ response.success
    /\ response.request["pages_read"][1] = "integer"
    /\ response.request["pages_read"][2] # 0
    /\ \E i \in DOMAIN store :
          store[i].id # response.session_id /\ store[i].date = response.request["date"]
             /\ CastNumeric(store[i].pages_read) # 0
    /\ store[Len(store)].id = response.session_id

NoSessionOn(st, o) == \A i \in DOMAIN st : st[i].date # strftime(o)

\* C3: with no session dated today, calculate_reading_streak returns 0,
\* whatever sessions other dates hold.
C3_NoSessionTodayNoStreak ==
    NoSessionOn(store, today) => calculate_reading_streak(store, today) = 0

\* C3, its case: get_stats answered a streak of 0 on a day without a session
\* while yesterday and the day before each hold a session with pages.
C3_Witness ==
    /\ NoSessionOn(store, today)
    /\ SumOn(store, strftime(today - 1)) > 0
    /\ SumOn(store, strftime(today - 2)) > 0
    /\ response.op = "get_stats"
    /\ response.payload = StatsPayload(store, today)
    /\ response.payload.current_streak = 0

\* Day o holds at least one session with pages_read > 0.
HasPages(st, o) ==
    \E i \in DOMAIN st :
        /\ st[i].date = strftime(o)
        /\ st[i].pages_read[1] = "integer" /\ st[i].pages_read[2] > 0

\* C4: if each of the last N >= 1 days through today holds a session with
\* pages_read > 0 and the day before them holds none, the streak is N.
C4_StreakIsRunLength ==
    \A N \in 1..(MaxDay + 1) :
        (/\ \A k \in 0..(N - 1) : HasPages(store, today - k)
         /\ ~HasPages(store, today - N))
        => calculate_reading_streak(store, today) = N

\* C9: every step leaves the stored sessions as they were; the table
\* changes only by a successful log_reading or cli_log_reading, which
\* appends one session whose id is above every id; a reading operation
\* and a failed logging leave the table unchanged.
C9_AppendOnly ==
    [][/\ store' # store =>
            /\ response'.op \in {"log_reading", "cli_log_reading"}
            /\ response'.success
            /\ Len(store') = Len(store) + 1
            /\ SubSeq(store', 1, Len(store)) = store
            /\ \A i \in DOMAIN store : store'[Len(store')].id > store[i].id
       /\ (response' # response /\ response'.op \in {"log_reading", "cli_log_reading"})
            => Len(store') = Len(store) + (IF response'.success THEN 1 ELSE 0)
       /\ response'.op \in {"get_stats", "get_chart_data", "get_recent_sessions"}
            => store' = store]_vars

\* C9, its case: cli_log_reading just added a session to a table that
\* already held one logged over HTTP.
C9_Witness ==
    /\ response.op = "cli_log_reading" /\ response.success
    /\ Len(store) = 2
    /\ store[1].id < store[2].id

\* The first rows of `rows` (a sequence of table rows) follow the order of
\* get_recent_sessions, and no row of st left out belongs before one of them.
FirstByDateThenCreated(st, rows) ==
    /\ Len(rows) = Min(LIMIT, Len(st))
    /\ \A k \in DOMAIN rows : \E i \in DOMAIN st : st[i] = rows[k]
    /\ \A k, l \in DOMAIN rows :
          k < l =>
            /\ rows[k].id # rows[l].id
            /\ TextLeq(rows[l].date, rows[k].date)
            /\ rows[k].date = rows[l].date => rows[k].created_at >= rows[l].created_at
    /\ \A i \in DOMAIN st :
          (\A k \in DOMAIN rows : rows[k].id # st[i].id) =>
            \A k \in DOMAIN rows :
                /\ TextLeq(st[i].date, rows[k].date)
                /\ st[i].date = rows[k].date => st[i].created_at <= rows[k].created_at

\* C5: get_recent_sessions returns min(10, sessions stored) entries, the
\* first of the sessions by date descending, then created_at descending:
\* no session left out has a later date than one returned, and of two
\* sessions of one date the later created never comes after the earlier.
C5_RecentOrder ==
    /\ \A tie \in {"asc", "desc"} : FirstByDateThenCreated(store, SelectRecent(store, tie))
    /\ response.op = "get_recent_sessions" =>
          /\ Len(response.sessions) = Min(LIMIT, Len(store))
          /\ \E tie \in {"asc", "desc"} :
                \A k \in DOMAIN response.sessions :
                    /\ response.sessions[k].date = SelectRecent(store, tie)[k].date
                    /\ response.sessions[k].pages_read = SelectRecent(store, tie)[k].pages_read

\* C5, its case: 10 entries were returned out of more than 10 sessions,
\* two of the returned share a date and differ in created_at, and a session
\* of the oldest returned date was left out.
C5_Witness ==
    /\ response.op = "get_recent_sessions"
    /\ Len(store) > LIMIT
    /\ Len(response.sessions) = LIMIT
    /\ \E i, j \in DOMAIN store :
          /\ store[i].date = store[j].date
          /\ store[i].created_at # store[j].created_at
          /\ store[i].date = response.sessions[1].date
    /\ Cardinality({i \in DOMAIN store :
                        store[i].date = response.sessions[LIMIT].date}) >
       Cardinality({k \in DOMAIN response.sessions :
                        response.sessions[k].date = response.sessions[LIMIT].date})

\* The sessions with no title: book_title '' or NULL.
Untitled(st) ==
    SelectSeq(st, LAMBDA r : r.book_title = Text("") \/ r.book_title = Null)

\* The sessions shown as "Unspecified": no title, or that very title.
ShownUnspecified(st) ==
    SelectSeq(st, LAMBDA r : r.book_title = Text("") \/ r.book_title = Null
                             \/ r.book_title = Text("Unspecified"))

\* What both readings of C6 share: at most 10 entries, no key twice, no
\* key '' or NULL, pages descending, and an "Unspecified" entry whenever a
\* session has no title and the books are at most 10.
BooksListShape(st, books) ==
    /\ Len(books) <= LIMIT
    /\ \A k, l \in DOMAIN books :
          k < l => books[k].book # books[l].book /\ books[k].pages[2] >= books[l].pages[2]
    /\ \A k \in DOMAIN books : books[k].book # Text("") /\ books[k].book # Null
    /\ (Untitled(st) # <<>> /\ Cardinality({BookKey(st[i]) : i \in DOMAIN st}) <= LIMIT)
          => \E k \in DOMAIN books : books[k].book = Text("Unspecified")

\* C6 as claimed: in the books of get_chart_data the sessions with title ''
\* and with title NULL make one entry "Unspecified" whose pages is the sum
\* of their pages_read; no key twice, pages descending, at most 10 entries.
C6_UnspecifiedSumsUntitled ==
    response.op = "get_chart_data" =>
        /\ BooksListShape(store, response.books)
        /\ Untitled(store) # <<>> =>
              \A k \in DOMAIN response.books :
                  response.books[k].book = Text("Unspecified")
                    => response.books[k].pages[2] = AddPages(Untitled(store))

\* C6 as amended: the pages of the entry "Unspecified" is the sum of
\* pages_read over the sessions with title '', NULL or "Unspecified"; every
\* other entry sums the sessions of its title.
C6_UnspecifiedSumsShown ==
    response.op = "get_chart_data" =>
        /\ BooksListShape(store, response.books)
        /\ \A k \in DOMAIN response.books :
              response.books[k].pages[2] =
                  IF response.books[k].book = Text("Unspecified")
                  THEN AddPages(ShownUnspecified(store))
                  ELSE AddPages(SelectSeq(store,
                          LAMBDA r : r.book_title = response.books[k].book))

\* C6, its case: sessions with title '', NULL and "Unspecified" are stored,
\* and the books returned are 10 out of more, "Unspecified" among them.
C6_Witness ==
    /\ response.op = "get_chart_data"
    /\ \E i, j, l \in DOMAIN store :
          /\ store[i].book_title = Text("")
          /\ store[j].book_title = Null
          /\ store[l].book_title = Text("Unspecified")
    /\ Len(response.books) = LIMIT
    /\ Cardinality({BookKey(store[i]) : i \in DOMAIN store}) > LIMIT
    /\ \E k \in DOMAIN response.books : response.books[k].book = Text("Unspecified")

====
